---- MODULE Spec2Model ----
(***************************************************************************)
(* SUDOKU-SAT: the two encoders (sud2sat_basic, sud2sat_extended) and the  *)
(* decoder (sat2sud) as one state machine.  Each behaviour is one run of   *)
(* one of the three executables on one input.                              *)
(***************************************************************************)
EXTENDS Integers, Sequences, FiniteSets, TLC

NUM_ROWS == 9
NUM_COLS == 9
NUM_DIGITS == 9
NUM_VARS == NUM_ROWS * NUM_COLS * NUM_DIGITS

(* ---------------- bounds of the explored inputs ---------------- *)
\* solved grids S_0 .. S_MaxShift
MaxShift == 1
\* given-masks M_0 .. M_MaxMask
MaxMask == 2
\* full (not necessarily legal) grids F_0 .. F_MaxFill fed to the decoder
MaxFill == 1
\* integers up to this far below 1 and above NUM_VARS are handed to inv_varnum
MaxProbe == 800

(* ---------------- generic helpers ---------------- *)
RECURSIVE Concat(_)
\* concatenation, in order, of a sequence of sequences: the effect of a loop
\* whose i-th iteration appends ss[i]
Concat(ss) == IF ss = <<>> THEN <<>> ELSE Head(ss) \o Concat(Tail(ss))

Abs(x) == IF x < 0 THEN -x ELSE x

(* ---------------- variable mapping ---------------- *)
varnum_collide(r, c, d) == 81 * (r - 1) + 8 * (c - 1) + d

varnum(r, c, d) == 81 * (r - 1) + 9 * (c - 1) + d

\* the int operators / and % for a positive divisor: the quotient is
\* truncated towards zero and the remainder has the sign of the dividend
cdiv(a, b) == IF a >= 0 THEN a \div b ELSE -((-a) \div b)
cmod(a, b) == a - b * cdiv(a, b)

inv_varnum_swapped(v) ==
    LET v1 == v - 1
        rem == cmod(v1, 81)
    IN  << cdiv(v1, 81) + 1, cmod(rem, 9) + 1, cdiv(rem, 9) + 1 >>

\* v -= 1; r = v / 81 + 1; rem = v % 81; c = rem / 9 + 1; d = rem % 9 + 1
\* (no test of v against 1..NUM_VARS)
inv_varnum(v) ==
    LET v1 == v - 1
        rem == cmod(v1, 81)
    IN  << cdiv(v1, 81) + 1, cdiv(rem, 9) + 1, cmod(rem, 9) + 1 >>

(* ---------------- constraint family generators ---------------- *)
\* each definition is the sequence of clauses the function appends to
\* `clauses`, in the order of its loops

add_cell_at_least_one ==
    Concat([r \in 1..NUM_ROWS |->
        [c \in 1..NUM_COLS |->
            [d \in 1..NUM_DIGITS |-> varnum(r, c, d)]]])

add_row_at_most_one_gap ==
    Concat([r \in 1..NUM_ROWS |->
      Concat([d \in 1..NUM_DIGITS |->
        Concat([c1 \in 1..(NUM_COLS - 2) |->
          [k \in 1..(NUM_COLS - c1 - 1) |->
              << -varnum(r, c1, d), -varnum(r, c1 + 1 + k, d) >>]])])])

add_row_at_most_one ==
    Concat([r \in 1..NUM_ROWS |->
      Concat([d \in 1..NUM_DIGITS |->
        Concat([c1 \in 1..(NUM_COLS - 1) |->
          [k \in 1..(NUM_COLS - c1) |->
              << -varnum(r, c1, d), -varnum(r, c1 + k, d) >>]])])])

add_col_at_most_one ==
    Concat([c \in 1..NUM_COLS |->
      Concat([d \in 1..NUM_DIGITS |->
        Concat([r1 \in 1..(NUM_ROWS - 1) |->
          [k \in 1..(NUM_ROWS - r1) |->
              << -varnum(r1, c, d), -varnum(r1 + k, c, d) >>]])])])

box_cells_transposed(br, bc) ==
    Concat([i \in 1..3 |->
        [j \in 1..3 |-> << 3 * bc + (i - 1) + 1, 3 * br + (j - 1) + 1 >>]])

\* the `cells` vector of box (br, bc): pairs <<r, c>>, dr outer, dc inner
\* (i = dr + 1, j = dc + 1)
box_cells(br, bc) ==
    Concat([i \in 1..3 |->
        [j \in 1..3 |-> << 3 * br + (i - 1) + 1, 3 * bc + (j - 1) + 1 >>]])

add_box_at_most_one ==
    Concat([bi \in 1..3 |->
      Concat([bj \in 1..3 |->
        LET cells == box_cells(bi - 1, bj - 1)
        IN  Concat([d \in 1..NUM_DIGITS |->
              Concat([i \in 1..(Len(cells) - 1) |->
                [k \in 1..(Len(cells) - i) |->
                    << -varnum(cells[i][1], cells[i][2], d),
                       -varnum(cells[i + k][1], cells[i + k][2], d) >>]])])])])

add_cell_at_most_one_both ==
    Concat([r \in 1..NUM_ROWS |->
      Concat([c \in 1..NUM_COLS |->
        Concat([d1 \in 1..NUM_DIGITS |->
          [k \in 1..(NUM_DIGITS - 1) |->
              << -varnum(r, c, d1),
                 -varnum(r, c, IF k < d1 THEN k ELSE k + 1) >>]])])])

add_cell_at_most_one ==
    Concat([r \in 1..NUM_ROWS |->
      Concat([c \in 1..NUM_COLS |->
        Concat([d1 \in 1..(NUM_DIGITS - 1) |->
          [k \in 1..(NUM_DIGITS - d1) |->
              << -varnum(r, c, d1), -varnum(r, c, d1 + k) >>]])])])

add_row_at_least_one_short ==
    Concat([r \in 1..NUM_ROWS |->
        [d \in 1..NUM_DIGITS |->
            [c \in 1..(NUM_COLS - 1) |-> varnum(r, c, d)]]])

add_row_at_least_one ==
    Concat([r \in 1..NUM_ROWS |->
        [d \in 1..NUM_DIGITS |->
            [c \in 1..NUM_COLS |-> varnum(r, c, d)]]])

add_col_at_least_one ==
    Concat([c \in 1..NUM_COLS |->
        [d \in 1..NUM_DIGITS |->
            [r \in 1..NUM_ROWS |-> varnum(r, c, d)]]])

add_box_at_least_one ==
    Concat([bi \in 1..3 |->
      Concat([bj \in 1..3 |->
        LET cells == box_cells(bi - 1, bj - 1)
        IN  [d \in 1..NUM_DIGITS |->
              [i \in 1..Len(cells) |->
                  varnum(cells[i][1], cells[i][2], d)]]])])

add_givens_zero(g) ==
    Concat([r \in 1..NUM_ROWS |->
      Concat([c \in 1..NUM_COLS |->
        IF 0 <= g[r][c] /\ g[r][c] <= 9
          THEN << << varnum(r, c, g[r][c]) >> >>
          ELSE << >>])])

add_givens_transposed(g) ==
    Concat([r \in 1..NUM_ROWS |->
      Concat([c \in 1..NUM_COLS |->
        IF 1 <= g[r][c] /\ g[r][c] <= 9
          THEN << << varnum(c, r, g[r][c]) >> >>
          ELSE << >>])])

\* g is the grid, g[r][c] for grid[r-1][c-1]
add_givens(g) ==
    Concat([r \in 1..NUM_ROWS |->
      Concat([c \in 1..NUM_COLS |->
        IF 1 <= g[r][c] /\ g[r][c] <= 9
          THEN << << varnum(r, c, g[r][c]) >> >>
          ELSE << >>])])


(* ---------------- puzzle text: read_grid ---------------- *)
\* a text is a sequence of characters (one-character strings)
DigitChars == << "1", "2", "3", "4", "5", "6", "7", "8", "9" >>
WildChars == { "0", ".", "*", "?" }

\* isspace() in the "C" locale
isspace(ch) == ch \in { " ", "\t", "\n", "\r", "\f" }

IsDigitChar(ch) == \E d \in 1..9 : DigitChars[d] = ch

\* ch - '0' for ch in '1'..'9'
DigitOf(ch) == CHOOSE d \in 1..9 : DigitChars[d] = ch

RECURSIVE getlines(_)
\* the successive results of getline(in, line) until it fails
getlines(t) ==
    IF t = << >> THEN << >>
    ELSE LET nl == { i \in 1..Len(t) : t[i] = "\n" }
         IN  IF nl = {} THEN << t >>
             ELSE LET n == CHOOSE i \in nl : \A j \in nl : i <= j
                  IN  << SubSeq(t, 1, n - 1) >>
                        \o getlines(SubSeq(t, n + 1, Len(t)))

\* the string `all` of read_grid: every non-whitespace character of every line
strip_all(t) ==
    LET lines == getlines(t)
    IN  Concat([i \in 1..Len(lines) |->
                  SelectSeq(lines[i], LAMBDA ch : ~isspace(ch))])

read_grid_len_lt(t, g0) ==
    LET all == strip_all(t)
        bad == { k \in 0..80 : k < Len(all) /\ ~IsDigitChar(all[k + 1])
                                 /\ all[k + 1] \notin WildChars }
        stop == IF bad = {} THEN 81
                ELSE CHOOSE k \in bad : \A j \in bad : k <= j
        cell(k) == IF k >= Len(all) THEN g0[(k \div 9) + 1][(k % 9) + 1]
                   ELSE IF IsDigitChar(all[k + 1]) THEN DigitOf(all[k + 1])
                   ELSE 0
    IN  IF Len(all) < 81
          THEN [ok |-> FALSE, grid |-> g0,
                err |-> << [msg |-> "Error: expected exactly 81 non-whitespace characters, got ",
                            arg |-> << Len(all) >>] >>]
          ELSE [ok |-> bad = {},
                grid |-> [r \in 1..9 |-> [c \in 1..9 |->
                            LET k == 9 * (r - 1) + (c - 1)
                            IN  IF k < stop THEN cell(k) ELSE g0[r][c]]],
                err |-> IF bad = {} THEN << >>
                        ELSE << [msg |-> "Error: invalid character at position ",
                                 arg |-> << all[stop + 1], stop >>] >>]

\* read_grid(in, grid): t is the content of the stream, g0 the caller's
\* (uninitialised) array.  Result: the return value, the array afterwards and
\* what was written to cerr.  Cell k of `all` goes to grid[k / 9][k % 9]; on
\* an invalid character at position `stop` the cells before it are already
\* written.
read_grid(t, g0) ==
    LET all == strip_all(t)
        bad == { k \in 0..80 : k < Len(all) /\ ~IsDigitChar(all[k + 1])
                                 /\ all[k + 1] \notin WildChars }
        stop == IF bad = {} THEN 81
                ELSE CHOOSE k \in bad : \A j \in bad : k <= j
        cell(k) == IF IsDigitChar(all[k + 1]) THEN DigitOf(all[k + 1]) ELSE 0
    IN  IF Len(all) # 81
          THEN [ok |-> FALSE, grid |-> g0,
                err |-> << [msg |-> "Error: expected exactly 81 non-whitespace characters, got ",
                            arg |-> << Len(all) >>] >>]
          ELSE [ok |-> bad = {},
                grid |-> [r \in 1..9 |-> [c \in 1..9 |->
                            LET k == 9 * (r - 1) + (c - 1)
                            IN  IF k < stop THEN cell(k) ELSE g0[r][c]]],
                err |-> IF bad = {} THEN << >>
                        ELSE << [msg |-> "Error: invalid character at position ",
                                 arg |-> << all[stop + 1], stop >>] >>]

(* ---------------- the explored puzzles ---------------- *)
\* a solved grid: the row-shifted pattern with the digits rotated by k
Solved(k) ==
    [r \in 1..9 |-> [c \in 1..9 |->
        ((3 * ((r - 1) % 3) + ((r - 1) \div 3) + (c - 1) + k) % 9) + 1]]

\* mask m keeps cell number n (0..80, row-major) iff m > 0 and m divides n
Masked(g, m) ==
    [r \in 1..9 |-> [c \in 1..9 |->
        IF m > 0 /\ (9 * (r - 1) + (c - 1)) % m = 0 THEN g[r][c] ELSE 0]]

\* nine 1s in the first row, nothing else: not a legal Sudoku position
RowOfOnes == [r \in 1..9 |-> [c \in 1..9 |-> IF r = 1 THEN 1 ELSE 0]]

Transpose(g) == [r \in 1..9 |-> [c \in 1..9 |-> g[c][r]]]

SolvedGrids ==
    { Solved(k) : k \in 0..MaxShift }
      \cup { Transpose(Solved(k)) : k \in 0..MaxShift }

PuzzleGrids ==
    { Masked(sol, m) : sol \in SolvedGrids, m \in 0..MaxMask }
      \cup { RowOfOnes }

\* three ways of writing a grid: one line with 0 for empty; nine lines with
\* . for empty; blanks, tabs and CR LF between symbols with * and ? for empty
Render(g, style) ==
    Concat([r \in 1..9 |->
      Concat([c \in 1..9 |->
        LET sym == IF g[r][c] > 0 THEN DigitChars[g[r][c]]
                   ELSE IF style = 0 THEN "0"
                   ELSE IF style = 1 THEN "."
                   ELSE IF (r + c) % 2 = 0 THEN "*" ELSE "?"
        IN  IF style = 0 THEN << sym >>
            ELSE IF style = 1
              THEN IF c = 9 THEN << sym, "\n" >> ELSE << sym >>
            ELSE IF c = 9 THEN << sym, "\r", "\n" >>
            ELSE IF c % 3 = 0 THEN << sym, "\t" >> ELSE << sym, " " >>])])

WellFormedTexts ==
    { Render(g, (g[1][1] + g[1][2]) % 3) : g \in PuzzleGrids }
      \cup { Render(Masked(Solved(0), 2), s) : s \in 0..2 }

BaseText == Render(Masked(Solved(0), 2), 0)

MalformedTexts ==
    { << >>,
      << " ", "\n", "\t" >>,
      SubSeq(BaseText, 1, 80),
      SubSeq(BaseText, 1, 80) \o << " ", "\n" >>,
      BaseText \o << "1" >>,
      BaseText \o << "\n", "0" >>,
      BaseText \o << "x" >>,
      [BaseText EXCEPT ![1] = "x"],
      [BaseText EXCEPT ![41] = "a"],
      [BaseText EXCEPT ![81] = "-"],
      SubSeq(Render(Masked(Solved(0), 1), 1), 1, 85) }

PuzzleTexts == WellFormedTexts \cup MalformedTexts

\* the content of the uninitialised `int grid[9][9]` of main
GarbageGrids == { [r \in 1..9 |-> [c \in 1..9 |-> x]] : x \in { 0, 7 } }

EncoderInputs ==
    { [readable |-> TRUE, text |-> t] : t \in PuzzleTexts }
      \cup { [readable |-> FALSE, text |-> << >>] }

(* ---------------- encoding policy: the two mains ---------------- *)
basic_main_no_box ==
    << "add_cell_at_least_one", "add_row_at_most_one", "add_col_at_most_one",
       "add_givens" >>

\* the generator calls of main, in order (sud2sat_basic)
basic_main ==
    << "add_cell_at_least_one", "add_row_at_most_one", "add_col_at_most_one",
       "add_box_at_most_one", "add_givens" >>

extended_main_givens_last ==
    << "add_cell_at_least_one", "add_row_at_most_one", "add_col_at_most_one",
       "add_box_at_most_one", "add_cell_at_most_one",
       "add_row_at_least_one", "add_col_at_least_one",
       "add_box_at_least_one", "add_givens" >>

extended_main_no_cell_amo ==
    << "add_cell_at_least_one", "add_row_at_most_one", "add_col_at_most_one",
       "add_box_at_most_one", "add_givens",
       "add_row_at_least_one", "add_col_at_least_one",
       "add_box_at_least_one" >>

\* the generator calls of main, in order (sud2sat_extended)
extended_main ==
    << "add_cell_at_least_one", "add_row_at_most_one", "add_col_at_most_one",
       "add_box_at_most_one", "add_givens", "add_cell_at_most_one",
       "add_row_at_least_one", "add_col_at_least_one",
       "add_box_at_least_one" >>

Calls(p) == IF p = "sud2sat_basic" THEN basic_main ELSE extended_main

\* the statement main reaches after the call `name`
after(p, name) ==
    LET seq == Calls(p)
        i == CHOOSE j \in 1..Len(seq) : seq[j] = name
    IN  IF i = Len(seq) THEN "output" ELSE seq[i + 1]

\* what the call `name` of main appends, g being main's grid
generator(name, g) ==
    CASE name = "add_cell_at_least_one" -> add_cell_at_least_one
      [] name = "add_row_at_most_one" -> add_row_at_most_one
      [] name = "add_col_at_most_one" -> add_col_at_most_one
      [] name = "add_box_at_most_one" -> add_box_at_most_one
      [] name = "add_givens" -> add_givens(g)
      [] name = "add_cell_at_most_one" -> add_cell_at_most_one
      [] name = "add_row_at_least_one" -> add_row_at_least_one
      [] name = "add_col_at_least_one" -> add_col_at_least_one
      [] name = "add_box_at_least_one" -> add_box_at_least_one

\* the clause collection main of program p has built when it reaches the
\* output: clauses.clear() followed by its generator calls in order
formula_of(p, g) ==
    Concat([i \in 1..Len(Calls(p)) |-> generator(Calls(p)[i], g)])

serialize_no_sentinel(cls) ==
    << [pre |-> "p cnf", toks |-> << NUM_VARS, Len(cls) >>] >>
      \o [i \in 1..Len(cls) |-> [pre |-> "", toks |-> cls[i]]]

\* the DIMACS text written to cout: one record per line, `pre` the literal
\* text the line starts with and `toks` the integers printed after it
serialize(cls) ==
    << [pre |-> "p cnf", toks |-> << NUM_VARS, Len(cls) >>] >>
      \o [i \in 1..Len(cls) |-> [pre |-> "", toks |-> cls[i] \o << 0 >>]]

(* ---------------- solver output: sat2sud ---------------- *)
\* a line is its whitespace-separated tokens; pad = the line has whitespace
\* before, after or doubled between them (a trailing CR, a blank).  A token
\* is an int the stream extraction accepts (isInt) or any other word.
I(n) == [isInt |-> TRUE, n |-> n, w |-> ""]
W(s) == [isInt |-> FALSE, n |-> 0, w |-> s]
Line(toks) == [pad |-> FALSE, toks |-> toks]
IntLine(ns) == Line([i \in 1..Len(ns) |-> I(ns[i])])

\* firstLine == "..." : string equality of the whole line
LineIs(line, word) ==
    /\ ~line.pad
    /\ Len(line.toks) = 1
    /\ ~line.toks[1].isInt
    /\ line.toks[1].w = word

Min(S) == CHOOSE m \in S : \A n \in S : m <= n
Max(S) == CHOOSE m \in S : \A n \in S : n <= m

\* while (ss >> val) { if (val == 0) break; ints.push_back(val); }
\* The loop ends at the first token that is not an int (the extraction
\* fails) or is 0; every token before it has been pushed, in order.
parse_ints(line) ==
    LET toks == line.toks
        ends == { i \in 1..Len(toks) : ~toks[i].isInt \/ toks[i].n = 0 }
        stop == IF ends = {} THEN Len(toks) + 1 ELSE Min(ends)
    IN  [i \in 1..(stop - 1) |-> toks[i].n]

\* vector<int> val(NUM_VARS + 1, 0);
\* for (int x : ints)
\*   if (x > 0 && x <= NUM_VARS) val[x] = 1;
\*   else if (x < 0 && -x <= NUM_VARS) val[-x] = -1;
\* val[v] is what the last iteration that wrote it stored: the iterations
\* with x = v store 1, those with x = -v store -1, no other touches val[v]
\* (and none touches val[0]).  For x = INT_MIN the negation -x overflows the
\* int: that iteration is left to main_build_val_overflow, and here it is the
\* outcome in which the build compares x >= -NUM_VARS and writes nothing.
INT_MIN == -2147483647 - 1

build_val(xs) ==
    [v \in 0..NUM_VARS |->
        LET writes == { i \in 1..Len(xs) :
                          \/ xs[i] > 0 /\ xs[i] <= NUM_VARS /\ xs[i] = v
                          \/ /\ xs[i] < 0 /\ xs[i] # INT_MIN
                             /\ -xs[i] <= NUM_VARS /\ -xs[i] = v }
        IN  IF writes = {} THEN 0
            ELSE IF xs[Max(writes)] > 0 THEN 1 ELSE -1]

\* memset(grid, 0, sizeof(grid));
\* for (v = 1; v <= NUM_VARS; ++v)
\*   if (val[v] == 1) { tie(r, c, d) = inv_varnum(v); grid[r-1][c-1] = d; }
\* a cell holds what the last iteration that wrote it stored, 0 if none did
decode_grid(vl) ==
    [r \in 1..9 |-> [c \in 1..9 |->
        LET writes == { v \in 1..NUM_VARS :
                          /\ vl[v] = 1
                          /\ inv_varnum(v)[1] = r
                          /\ inv_varnum(v)[2] = c }
        IN  IF writes = {} THEN 0 ELSE inv_varnum(Max(writes))[3]]]

read_verdict_no_unsat(inp) ==
    IF ~inp.readable
      THEN [ok |-> FALSE, msg |-> "Error: cannot open assignment file "]
    ELSE IF Len(inp.lines) < 1
      THEN [ok |-> FALSE, msg |-> "Error: empty assignment file"]
    ELSE IF ~LineIs(inp.lines[1], "SAT")
      THEN [ok |-> FALSE,
            msg |-> "Error: expected SAT or UNSAT on first line, got: "]
    ELSE [ok |-> TRUE, msg |-> ""]

\* main from the opening of the stream to the dispatch on the first line:
\* ok = main goes on to the assignment line, otherwise msg is what it wrote
\* to cerr before return 1
read_verdict(inp) ==
    IF ~inp.readable
      THEN [ok |-> FALSE, msg |-> "Error: cannot open assignment file "]
    ELSE IF Len(inp.lines) < 1
      THEN [ok |-> FALSE, msg |-> "Error: empty assignment file"]
    ELSE IF LineIs(inp.lines[1], "UNSAT")
      THEN [ok |-> FALSE, msg |-> "UNSAT: puzzle has no solution."]
    ELSE IF ~LineIs(inp.lines[1], "SAT")
      THEN [ok |-> FALSE,
            msg |-> "Error: expected SAT or UNSAT on first line, got: "]
    ELSE [ok |-> TRUE, msg |-> ""]

\* cout << grid[r][c] : the decimal text of a value in 0..9
DigitText(n) == IF n = 0 THEN "0" ELSE DigitChars[n]

\* the printed grid: 9 lines of 9 characters
print_grid(g) == [r \in 1..9 |-> [c \in 1..9 |-> DigitText(g[r][c])]]

(* ---------------- the explored solver outputs ---------------- *)
\* full grids with every cell in 1..9, legal or not (f = 0: all 9s)
Fill(f) ==
    [r \in 1..9 |-> [c \in 1..9 |-> ((f * (r * r + 2 * c) + 8) % 9) + 1]]

FullGrids == { Fill(f) : f \in 0..MaxFill } \cup SolvedGrids

TrueVars(g) == { varnum(r, c, g[r][c]) : r \in 1..9, c \in 1..9 }

\* variable v positive iff it is the variable of a cell's digit, in order 1..729
AssignLits(g) ==
    LET tv == TrueVars(g)
    IN  [v \in 1..NUM_VARS |-> IF v \in tv THEN v ELSE -v]

PositiveLits(g) ==
    Concat([r \in 1..9 |-> [c \in 1..9 |-> varnum(r, c, g[r][c])]])

Reverse(sq) == [i \in 1..Len(sq) |-> sq[Len(sq) + 1 - i]]

SatLine == Line(<< W("SAT") >>)

\* a decimal token beyond the range of int: ss >> val fails on it
BigLiteral == W("3000000000")

AssignmentLines ==
    { IntLine(AssignLits(g) \o << 0 >>) : g \in FullGrids }
      \cup
    { IntLine(Reverse(AssignLits(Solved(0))) \o << 0 >>),
      IntLine(PositiveLits(Solved(0)) \o << 0 >>),
      IntLine(PositiveLits(Solved(0))),
      IntLine(PositiveLits(Solved(0)) \o << varnum(1, 1, 9), varnum(9, 9, 1), 0 >>),
      IntLine([AssignLits(Solved(0)) EXCEPT ![varnum(5, 5, Solved(0)[5][5])] = -@]
                \o << 0 >>),
      IntLine(<< 0 >>),
      Line(<< >>),
      IntLine(<< 730, -730, 1000, 1, -2, 0 >>),
      IntLine(<< 1, 2, 0 >>),
      IntLine(<< 1, 0, 11 >>),
      Line(<< I(1), W("v"), I(11), I(0) >>),
      IntLine(<< 5, -5, 0 >>),
      IntLine(<< -5, 5, 0 >>),
      IntLine(<< 1, INT_MIN, 11, 0 >>),
      IntLine(<< 1, 2147483647, -1000, 11, 0 >>),
      Line(<< I(1), BigLiteral, I(11), I(0) >>) }

\* solver outputs in the free-form shape: literals on several lines, a
\* comment line before the verdict, a "v" prefix, everything on one line
FreeFormFiles ==
    { << SatLine, IntLine(<< 1, -2, 0 >>), IntLine(<< 11, 0 >>) >>,
      << Line(<< W("c"), W("solution") >>), SatLine, IntLine(<< 1, 11, 0 >>) >>,
      << SatLine, Line(<< W("v"), I(1), I(11), I(0) >>) >>,
      << Line(<< W("SAT"), I(1), I(11), I(0) >>) >> }

DecoderFiles ==
    { << SatLine, a >> : a \in AssignmentLines }
      \cup FreeFormFiles
      \cup
    { << >>,
      << SatLine >>,
      << Line(<< W("UNSAT") >>) >>,
      << Line(<< W("UNSAT") >>), IntLine(<< 1, 2, 0 >>) >>,
      << [pad |-> TRUE, toks |-> << W("UNSAT") >>] >>,
      << [pad |-> TRUE, toks |-> << W("SAT") >>], IntLine(<< 1, 0 >>) >>,
      << Line(<< W("UNKNOWN") >>) >>,
      << Line(<< W("INDET") >>), IntLine(<< 1, 0 >>) >>,
      << Line(<< W("s"), W("SATISFIABLE") >>), IntLine(<< 1, 0 >>) >>,
      << Line(<< >>), SatLine, IntLine(<< 1, 0 >>) >>,
      << IntLine(<< 1, 0 >>) >> }

DecoderInputs ==
    { [readable |-> TRUE, lines |-> f] : f \in DecoderFiles }
      \cup { [readable |-> FALSE, lines |-> << >>] }

(* ---------------- state ---------------- *)
VARIABLES
    prog,      \* the executable that runs
    input,     \* the stream it reads (argv[1] or stdin)
    pc,        \* the statement of main it has reached
    grid,      \* int grid[9][9]
    clauses,   \* vector<vector<int>> clauses
    ints,      \* vector<int> ints   (sat2sud)
    val,       \* vector<int> val    (sat2sud)
    out,       \* what was written to cout
    err,       \* what was written to cerr
    rc         \* the value main returned, -1 while it runs

vars == << prog, input, pc, grid, clauses, ints, val, out, err, rc >>

Encoders == { "sud2sat_basic", "sud2sat_extended" }

Init ==
    /\ prog \in Encoders \cup { "sat2sud" }
    /\ input \in IF prog = "sat2sud" THEN DecoderInputs ELSE EncoderInputs
    /\ pc = "main"
    /\ grid \in GarbageGrids
    /\ clauses = << >>
    /\ ints = << >>
    /\ val = << >>
    /\ out = << >>
    /\ err = << >>
    /\ rc = -1

(* ---------------- sud2sat_basic / sud2sat_extended ---------------- *)
\* main up to and including clauses.clear()
main_read_grid ==
    /\ prog \in Encoders
    /\ pc = "main"
    /\ IF ~input.readable
         THEN /\ err' = << [msg |-> "Error: cannot open puzzle file ", arg |-> << >>] >>
              /\ rc' = 1
              /\ pc' = "exit"
              /\ UNCHANGED << grid, clauses >>
         ELSE LET res == read_grid(input.text, grid)
              IN  /\ grid' = res.grid
                  /\ err' = res.err
                  /\ IF res.ok
                       THEN /\ clauses' = << >>
                            /\ pc' = IF Calls(prog) = << >> THEN "output"
                                     ELSE Calls(prog)[1]
                            /\ rc' = rc
                       ELSE /\ rc' = 1
                            /\ pc' = "exit"
                            /\ clauses' = clauses
    /\ UNCHANGED << prog, input, ints, val, out >>

\* one action per generator call of main: it appends the generator's clauses
\* to the global `clauses` and main goes on to its next statement
call_add_cell_at_least_one ==
    /\ prog \in Encoders
    /\ pc = "add_cell_at_least_one"
    /\ clauses' = clauses \o add_cell_at_least_one
    /\ pc' = after(prog, "add_cell_at_least_one")
    /\ UNCHANGED << prog, input, grid, ints, val, out, err, rc >>

call_add_row_at_most_one ==
    /\ prog \in Encoders
    /\ pc = "add_row_at_most_one"
    /\ clauses' = clauses \o add_row_at_most_one
    /\ pc' = after(prog, "add_row_at_most_one")
    /\ UNCHANGED << prog, input, grid, ints, val, out, err, rc >>

call_add_col_at_most_one ==
    /\ prog \in Encoders
    /\ pc = "add_col_at_most_one"
    /\ clauses' = clauses \o add_col_at_most_one
    /\ pc' = after(prog, "add_col_at_most_one")
    /\ UNCHANGED << prog, input, grid, ints, val, out, err, rc >>

call_add_box_at_most_one ==
    /\ prog \in Encoders
    /\ pc = "add_box_at_most_one"
    /\ clauses' = clauses \o add_box_at_most_one
    /\ pc' = after(prog, "add_box_at_most_one")
    /\ UNCHANGED << prog, input, grid, ints, val, out, err, rc >>

call_add_givens ==
    /\ prog \in Encoders
    /\ pc = "add_givens"
    /\ clauses' = clauses \o add_givens(grid)
    /\ pc' = after(prog, "add_givens")
    /\ UNCHANGED << prog, input, grid, ints, val, out, err, rc >>

call_add_cell_at_most_one ==
    /\ prog \in Encoders
    /\ pc = "add_cell_at_most_one"
    /\ clauses' = clauses \o add_cell_at_most_one
    /\ pc' = after(prog, "add_cell_at_most_one")
    /\ UNCHANGED << prog, input, grid, ints, val, out, err, rc >>

call_add_row_at_least_one ==
    /\ prog \in Encoders
    /\ pc = "add_row_at_least_one"
    /\ clauses' = clauses \o add_row_at_least_one
    /\ pc' = after(prog, "add_row_at_least_one")
    /\ UNCHANGED << prog, input, grid, ints, val, out, err, rc >>

call_add_col_at_least_one ==
    /\ prog \in Encoders
    /\ pc = "add_col_at_least_one"
    /\ clauses' = clauses \o add_col_at_least_one
    /\ pc' = after(prog, "add_col_at_least_one")
    /\ UNCHANGED << prog, input, grid, ints, val, out, err, rc >>

call_add_box_at_least_one ==
    /\ prog \in Encoders
    /\ pc = "add_box_at_least_one"
    /\ clauses' = clauses \o add_box_at_least_one
    /\ pc' = after(prog, "add_box_at_least_one")
    /\ UNCHANGED << prog, input, grid, ints, val, out, err, rc >>

\* the DIMACS output and return 0
main_output ==
    /\ prog \in Encoders
    /\ pc = "output"
    /\ out' = serialize(clauses)
    /\ rc' = 0
    /\ pc' = "exit"
    /\ UNCHANGED << prog, input, grid, clauses, ints, val, err >>

(* ---------------- sat2sud ---------------- *)
\* open the stream, read the first line, dispatch on the verdict
main_read_verdict ==
    /\ prog = "sat2sud"
    /\ pc = "main"
    /\ LET res == read_verdict(input)
       IN  IF res.ok
             THEN /\ pc' = "read_assignment"
                  /\ UNCHANGED << err, rc >>
             ELSE /\ err' = << [msg |-> res.msg, arg |-> << >>] >>
                  /\ rc' = 1
                  /\ pc' = "exit"
    /\ UNCHANGED << prog, input, grid, clauses, ints, val, out >>

\* read the second line and extract its integers
main_read_assignment ==
    /\ prog = "sat2sud"
    /\ pc = "read_assignment"
    /\ IF Len(input.lines) < 2
         THEN /\ err' = << [msg |-> "Error: expected assignment line after SAT",
                            arg |-> << >>] >>
              /\ rc' = 1
              /\ pc' = "exit"
              /\ ints' = ints
         ELSE /\ ints' = parse_ints(input.lines[2])
              /\ pc' = "build_val"
              /\ UNCHANGED << err, rc >>
    /\ UNCHANGED << prog, input, grid, clauses, val, out >>

main_build_val ==
    /\ prog = "sat2sud"
    /\ pc = "build_val"
    /\ val' = build_val(ints)
    /\ pc' = "decode"
    /\ UNCHANGED << prog, input, grid, clauses, ints, out, err, rc >>

\* the same loop when some x is INT_MIN and the build negates it with
\* wrap-around: -x is INT_MIN again, -x <= NUM_VARS holds and val[-x] is a
\* write far below the array; the process is killed before any output
main_build_val_overflow ==
    /\ prog = "sat2sud"
    /\ pc = "build_val"
    /\ \E i \in 1..Len(ints) : ints[i] = INT_MIN
    /\ pc' = "crash"
    /\ UNCHANGED << prog, input, grid, clauses, ints, val, out, err, rc >>

main_decode ==
    /\ prog = "sat2sud"
    /\ pc = "decode"
    /\ grid' = decode_grid(val)
    /\ pc' = "print"
    /\ UNCHANGED << prog, input, clauses, ints, val, out, err, rc >>

main_print ==
    /\ prog = "sat2sud"
    /\ pc = "print"
    /\ out' = print_grid(grid)
    /\ rc' = 0
    /\ pc' = "exit"
    /\ UNCHANGED << prog, input, grid, clauses, ints, val, err >>

Next ==
    \/ main_read_grid
    \/ call_add_cell_at_least_one
    \/ call_add_row_at_most_one
    \/ call_add_col_at_most_one
    \/ call_add_box_at_most_one
    \/ call_add_givens
    \/ call_add_cell_at_most_one
    \/ call_add_row_at_least_one
    \/ call_add_col_at_least_one
    \/ call_add_box_at_least_one
    \/ main_output
    \/ main_read_verdict
    \/ main_read_assignment
    \/ main_build_val
    \/ main_build_val_overflow
    \/ main_decode
    \/ main_print

Spec == Init /\ [][Next]_vars

(* ---------------- inv_varnum on its own ---------------- *)
\* a caller that hands one integer to inv_varnum and keeps what it returns
InvVarnumProbes == (1 - MaxProbe)..(NUM_VARS + MaxProbe)

InitInvVarnum ==
    /\ prog = "inv_varnum"
    /\ input \in InvVarnumProbes
    /\ pc = "main"
    /\ grid = << >>
    /\ clauses = << >>
    /\ ints = << >>
    /\ val = << >>
    /\ out = << >>
    /\ err = << >>
    /\ rc = -1

call_inv_varnum ==
    /\ prog = "inv_varnum"
    /\ pc = "main"
    /\ out' = inv_varnum(input)
    /\ rc' = 0
    /\ pc' = "exit"
    /\ UNCHANGED << prog, input, grid, clauses, ints, val, err >>

NextInvVarnum == call_inv_varnum

SpecInvVarnum == InitInvVarnum /\ [][NextInvVarnum]_vars

(* ======================= properties ======================= *)
EncoderDone == prog \in Encoders /\ pc = "exit" /\ rc = 0
DecoderDone == prog = "sat2sud" /\ pc = "exit" /\ rc = 0

\* the variables occurring in a clause list
\* C1: varnum and inv_varnum are mutually inverse bijections between
\* [1,9]^3 and [1,729]: inv_varnum(varnum(r,c,d)) = (r,c,d), varnum(r,c,d) =
\* 81(r-1) + 9(c-1) + d lies in 1..729, and varnum(inv_varnum(v)) = v for
\* every v in 1..729; hence every cell the decoder has filled holds the digit
\* of a variable valued true whose varnum is that cell and digit.
C1_Bijection ==
    /\ \A r \in 1..9, c \in 1..9, d \in 1..9 :
          /\ varnum(r, c, d) = 81 * (r - 1) + 9 * (c - 1) + d
          /\ varnum(r, c, d) \in 1..729
          /\ inv_varnum(varnum(r, c, d)) = << r, c, d >>
    /\ \A v \in 1..729 :
          LET t == inv_varnum(v)
          IN  /\ t[1] \in 1..9 /\ t[2] \in 1..9 /\ t[3] \in 1..9
              /\ varnum(t[1], t[2], t[3]) = v
    /\ (prog = "sat2sud" /\ pc \in { "print", "exit" } /\ val # << >>) =>
          \A r \in 1..9, c \in 1..9 :
              grid[r][c] # 0 => val[varnum(r, c, grid[r][c])] = 1

C1_Witness ==
    /\ prog = "sat2sud"
    /\ pc = "print"
    /\ grid = Fill(1)

\* number of clue symbols '1'..'9' of a text
NumGivens(t) == Cardinality({ i \in 1..Len(t) : IsDigitChar(t[i]) })

IsValidSolution(sol) ==
    /\ \A r \in 1..9 : { sol[r][c] : c \in 1..9 } = 1..9
    /\ \A c \in 1..9 : { sol[r][c] : r \in 1..9 } = 1..9
    /\ \A br \in 0..2, bc \in 0..2 :
          { sol[3 * br + i][3 * bc + j] : i \in 1..3, j \in 1..3 } = 1..9

\* the filled cells of g are cells of sol
GivensFrom(g, sol) ==
    \A r \in 1..9, c \in 1..9 : g[r][c] = 0 \/ g[r][c] = sol[r][c]

\* an assignment is the set of variables it makes true
LitTrue(l, trueVars) == IF l > 0 THEN l \in trueVars ELSE (-l) \notin trueVars

Satisfies(trueVars, cls) ==
    \A i \in 1..Len(cls) : \E j \in 1..Len(cls[i]) : LitTrue(cls[i][j], trueVars)

\* C3: for a solved valid grid S and a puzzle whose givens are cells of S,
\* the assignment making exactly the variables varnum(r,c,S[r][c]) true
\* satisfies every clause of the formula either encoder built.
C3_SolutionSatisfies ==
    EncoderDone =>
        \A sol \in SolvedGrids :
            (IsValidSolution(sol) /\ GivensFrom(grid, sol)) =>
                Satisfies(TrueVars(sol), clauses)

C3_Witness ==
    /\ EncoderDone
    /\ prog = "sud2sat_extended"
    /\ grid = Masked(Transpose(Solved(1)), 2)
    /\ IsValidSolution(Transpose(Solved(1)))
    /\ Satisfies(TrueVars(Transpose(Solved(1))), clauses)

\* full grids that break exactly one of the three house rules
LatinSquare == [r \in 1..9 |-> [c \in 1..9 |-> ((r + c) % 9) + 1]]
BandRepeat == [r \in 1..9 |-> [c \in 1..9 |-> Solved(0)[((r - 1) % 3) + 1][c]]]

\* the assignments the two formulas are compared on: solutions, full grids
\* that are no solutions, solutions with one variable more or one less, the
\* empty and the full assignment
TestAssignments ==
    { TrueVars(g) : g \in FullGrids \cup { LatinSquare, BandRepeat,
                                           Transpose(BandRepeat) } }
      \cup { TrueVars(sol) \cup { varnum(1, 1, d) } :
                sol \in SolvedGrids, d \in 1..9 }
      \cup { TrueVars(sol) \ { varnum(r, r, sol[r][r]) } :
                sol \in SolvedGrids, r \in { 1, 5, 9 } }
      \cup { {}, 1..NUM_VARS }

OtherEncoder == IF prog = "sud2sat_basic" THEN "sud2sat_extended"
                ELSE "sud2sat_basic"

\* C4: the formula a run of one encoder has built and the formula the other
\* encoder builds from the same givens are satisfied by the same assignments.
C4_SameModels ==
    EncoderDone =>
        LET other == formula_of(OtherEncoder, grid)
        IN  \A tv \in TestAssignments :
                Satisfies(tv, clauses) <=> Satisfies(tv, other)

C4_Witness ==
    /\ EncoderDone
    /\ prog = "sud2sat_basic"
    /\ grid = Masked(Solved(0), 0)
    /\ Satisfies(TrueVars(Solved(1)), clauses)
    /\ Satisfies(TrueVars(Solved(1)), formula_of("sud2sat_extended", grid))
    /\ ~Satisfies(TrueVars(LatinSquare), clauses)
    /\ ~Satisfies(TrueVars(LatinSquare), formula_of("sud2sat_extended", grid))

\* the solver output "SAT" + the assignment of full grid g, variables 1..729
RoundTripFile(g) == << SatLine, IntLine(AssignLits(g) \o << 0 >>) >>

\* the same assignment listed from variable 729 down to 1
RoundTripFileDown(g) == << SatLine, IntLine(Reverse(AssignLits(g)) \o << 0 >>) >>

\* C5: decoding the assignment that makes varnum(r,c,G[r][c]) positive and
\* every other variable negative prints exactly G, 9 lines of 9 digits.
C5_RoundTrip ==
    (prog = "sat2sud" /\ pc = "exit" /\ input.readable) =>
        \A g \in FullGrids :
            (input.lines = RoundTripFile(g) \/ input.lines = RoundTripFileDown(g)) =>
                /\ rc = 0
                /\ Len(out) = 9
                /\ \A r \in 1..9 :
                      /\ Len(out[r]) = 9
                      /\ \A c \in 1..9 :
                            /\ IsDigitChar(out[r][c])
                            /\ DigitOf(out[r][c]) = g[r][c]

C5_Witness ==
    /\ DecoderDone
    /\ input.lines = RoundTripFile(Fill(1))
    /\ \A r \in 1..9, c \in 1..9 : out[r][c] = DigitChars[Fill(1)[r][c]]

\* the puzzle text with every whitespace character removed
NoWhitespace(t) ==
    SelectSeq(t, LAMBDA ch : ch \notin { " ", "\t", "\n", "\r", "\f" })

PuzzleSymbols == { DigitChars[d] : d \in 1..9 } \cup { "0", ".", "*", "?" }

WellFormedPuzzle(t) ==
    /\ Len(NoWhitespace(t)) = 81
    /\ \A k \in 1..81 : NoWhitespace(t)[k] \in PuzzleSymbols

\* C6: an encoder run on a readable text succeeds iff the text without
\* whitespace is exactly 81 symbols, each 1-9 or 0 . * ?; otherwise it
\* returns non-zero and writes nothing to its output, at any point of the
\* run; on success symbol k is cell k of the grid (nothing dropped or added).
C6_InputFormat ==
    (prog \in Encoders /\ input.readable) =>
        LET sym == NoWhitespace(input.text)
        IN  /\ ~WellFormedPuzzle(input.text) => out = << >>
            /\ pc = "exit" =>
                  /\ (rc = 0) <=> WellFormedPuzzle(input.text)
                  /\ rc # 0 => out = << >>
                  /\ rc = 0 =>
                        \A k \in 1..81 :
                            LET cell == grid[((k - 1) \div 9) + 1][((k - 1) % 9) + 1]
                            IN  IF IsDigitChar(sym[k])
                                  THEN cell = DigitOf(sym[k])
                                  ELSE cell = 0

C6_Witness ==
    /\ prog \in Encoders
    /\ pc = "exit"
    /\ rc = 1
    /\ Len(NoWhitespace(input.text)) = 82
    /\ \A k \in 1..82 : NoWhitespace(input.text)[k] \in PuzzleSymbols
    /\ out = << >>

\* the cells of g holding a digit, row-major, as unit clauses
GivenUnits(g) ==
    LET cellNo == SelectSeq([k \in 1..81 |-> k],
                    LAMBDA k : g[((k - 1) \div 9) + 1][((k - 1) % 9) + 1] \in 1..9)
    IN  [i \in 1..Len(cellNo) |->
            LET r == ((cellNo[i] - 1) \div 9) + 1
                c == ((cellNo[i] - 1) % 9) + 1
            IN  << varnum(r, c, g[r][c]) >>]

\* C7: the add_givens step appends exactly one unit clause [varnum(r,c,d)] per
\* cell holding a digit d in 1..9, in row-major order, nothing for a cell
\* holding 0, and leaves the clauses before them (81 cell-at-least-one, 3*2916
\* at-most-one) as they were; whether the givens are legal plays no role.
C7_Givens ==
    [][ (prog \in Encoders /\ pc = "add_givens") =>
           /\ Len(clauses) = 81 + 3 * 2916
           /\ clauses' = clauses \o GivenUnits(grid)
           /\ \A i \in 1..Len(GivenUnits(grid)) :
                 /\ Len(clauses'[Len(clauses) + i]) = 1
                 /\ clauses'[Len(clauses) + i][1] \in 1..NUM_VARS ]_vars

C7_Witness ==
    /\ prog = "sud2sat_basic"
    /\ pc = "output"
    /\ grid = RowOfOnes
    /\ Len(clauses) = 81 + 3 * 2916 + 9
    /\ SubSeq(clauses, 81 + 3 * 2916 + 1, Len(clauses))
         = [c \in 1..9 |-> << 9 * (c - 1) + 1 >>]

\* C8: the output is one header line "p cnf 729 N", N the number of stored
\* clauses, followed by N lines; line i is the literals of clause i in stored
\* order and a final 0; nothing is reordered, merged or dropped.
C8_Serialization ==
    EncoderDone =>
        /\ Len(out) = 1 + Len(clauses)
        /\ out[1] = [pre |-> "p cnf", toks |-> << 729, Len(clauses) >>]
        /\ \A i \in 1..Len(clauses) :
              LET ln == out[i + 1]
              IN  /\ ln.pre = ""
                  /\ Len(ln.toks) = Len(clauses[i]) + 1
                  /\ SubSeq(ln.toks, 1, Len(clauses[i])) = clauses[i]
                  /\ ln.toks[Len(ln.toks)] = 0
                  /\ \A j \in 1..Len(clauses[i]) : ln.toks[j] # 0

\* clause 82 (row 1, digit 1, columns 1 and 2) and clause 5914 (box 1, digit
\* 1, its first two cells) are the same clause, and both are in the output
C8_Witness ==
    /\ EncoderDone
    /\ clauses[82] = clauses[81 + 2 * 2916 + 1]
    /\ out[83] = [pre |-> "", toks |-> << -1, -10, 0 >>]
    /\ out[81 + 2 * 2916 + 2] = out[83]

\* what a run reports: its return value and the message on cerr
Outcome == [rc |-> rc, msg |-> IF err = << >> THEN "" ELSE err[1].msg]

VerdictUnsat(inp) ==
    inp.readable /\ Len(inp.lines) >= 1 /\ LineIs(inp.lines[1], "UNSAT")

\* no verdict line, an unknown verdict, or SAT without an assignment line
MalformedSolverOutput(inp) ==
    /\ inp.readable
    /\ \/ Len(inp.lines) = 0
       \/ Len(inp.lines) >= 1 /\ ~LineIs(inp.lines[1], "UNSAT")
                              /\ ~LineIs(inp.lines[1], "SAT")
       \/ Len(inp.lines) = 1 /\ LineIs(inp.lines[1], "SAT")

\* the report of the run on the one-line file "UNSAT"
NoSolutionReport ==
    [rc |-> 1,
     msg |-> read_verdict([readable |-> TRUE,
                           lines |-> << Line(<< W("UNSAT") >>) >>]).msg]

\* C9: on the verdict UNSAT the decoder prints no grid line and its report is
\* the no-solution report, which no run on malformed input (no or unknown
\* verdict, missing assignment line) produces.
C9_Unsat ==
    (prog = "sat2sud" /\ pc = "exit") =>
        /\ VerdictUnsat(input) =>
              /\ out = << >>
              /\ rc # 0
              /\ Outcome = NoSolutionReport
        /\ MalformedSolverOutput(input) =>
              /\ out = << >>
              /\ rc # 0
              /\ Outcome # NoSolutionReport

C9_Witness ==
    /\ prog = "sat2sud"
    /\ pc = "exit"
    /\ VerdictUnsat(input)
    /\ Len(input.lines) = 2
    /\ out = << >>
    /\ Outcome = NoSolutionReport

\* the digits d whose variable for cell (r, c) is valued true
TrueDigits(r, c) == { d \in 1..9 : val[varnum(r, c, d)] = 1 }

\* C10 (as claimed): under a SAT verdict, when some cell has two variables
\* valued true or none, the decoder fails without printing a grid, so every
\* printed grid has all 81 cells in 1..9.
C10_ConflictSurfaced ==
    (prog = "sat2sud" /\ pc = "exit" /\ val # << >>) =>
        /\ (\E r \in 1..9, c \in 1..9 : Cardinality(TrueDigits(r, c)) # 1) =>
              (rc # 0 /\ out = << >>)
        /\ out # << >> =>
              \A r \in 1..9, c \in 1..9 : IsDigitChar(out[r][c])

\* the verdict keywords and the line prefix of the free-form shape
VerdictKeywords == { "SAT", "UNSAT", "UNKNOWN", "v" }
IsCommentLine(line) ==
    Len(line.toks) >= 1 /\ ~line.toks[1].isInt /\ line.toks[1].w = "c"

\* a free-form solver output with the verdict SAT: every line is a comment
\* line or consists of verdict keywords and integers
IsFreeForm(lines) ==
    /\ \A i \in 1..Len(lines) :
          \/ IsCommentLine(lines[i])
          \/ \A j \in 1..Len(lines[i].toks) :
                \/ lines[i].toks[j].isInt
                \/ lines[i].toks[j].w \in VerdictKeywords
    /\ \E i \in 1..Len(lines) :
          /\ ~IsCommentLine(lines[i])
          /\ \E j \in 1..Len(lines[i].toks) :
                ~lines[i].toks[j].isInt /\ lines[i].toks[j].w = "SAT"
    /\ \A i \in 1..Len(lines) :
          IsCommentLine(lines[i]) \/
          \A j \in 1..Len(lines[i].toks) :
              lines[i].toks[j].isInt \/ lines[i].toks[j].w # "UNSAT"

\* its literals: every nonzero integer of every non-comment line, in order
FreeFormLiterals(lines) ==
    Concat([i \in 1..Len(lines) |->
        IF IsCommentLine(lines[i]) THEN << >>
        ELSE LET lits == SelectSeq(lines[i].toks,
                            LAMBDA t : t.isInt /\ t.n # 0)
             IN  [j \in 1..Len(lits) |-> lits[j].n]])

\* what the decoder prints for shape (a): SAT, then the literals and a 0
PrintedForShapeA(lits) ==
    print_grid(decode_grid(build_val(parse_ints(IntLine(lits \o << 0 >>)))))

\* C11 (as claimed): from a free-form solver output (literals over any number
\* of lines, verdict keywords, comment lines, 0 only ending a line) the
\* decoder prints the grid it prints for the same literals in the two-line
\* shape.
C11_BothShapes ==
    (prog = "sat2sud" /\ pc = "exit" /\ input.readable
       /\ IsFreeForm(input.lines)) =>
        /\ rc = 0
        /\ out = PrintedForShapeA(FreeFormLiterals(input.lines))

\* an assignment line: nonzero integers, then the terminating 0
IsAssignmentLine(line) ==
    /\ Len(line.toks) >= 1
    /\ \A j \in 1..Len(line.toks) :
          /\ line.toks[j].isInt
          /\ (line.toks[j].n = 0) <=> (j = Len(line.toks))

\* two permutations of a literal sequence: one step of rotation, and Reverse
Rotate(s) ==
    IF Len(s) = 0 THEN s ELSE SubSeq(s, 2, Len(s)) \o << s[1] >>
Reorderings(s) == { Reverse(s), Rotate(s) }

\* C12 (as claimed): for an assignment line of nonzero literals ended by 0,
\* every permutation of the literals decodes to the grid that was printed.
C12_ReorderInvariant ==
    (prog = "sat2sud" /\ pc = "exit" /\ input.readable
       /\ Len(input.lines) = 2 /\ input.lines[1] = SatLine
       /\ IsAssignmentLine(input.lines[2])) =>
        /\ rc = 0
        /\ \A p \in Reorderings(parse_ints(input.lines[2])) :
              PrintedForShapeA(p) = out

\* a literal token whose absolute value is outside [1, NUM_VARS]
IsOutOfRangeLiteral(t) ==
    \/ t.isInt /\ t.n # 0 /\ (t.n > NUM_VARS \/ t.n < -NUM_VARS)
    \/ t = BigLiteral

\* the line with those literals removed
WithoutOutOfRange(line) ==
    [line EXCEPT !.toks =
        SelectSeq(line.toks, LAMBDA t : ~IsOutOfRangeLiteral(t))]

\* C13 (as claimed): literals with absolute value outside [1,729] are a no-op:
\* the run on an assignment line containing some ends as the run on the line
\* without them does (same valuation of 1..729, same printed grid, return 0),
\* and never writes outside the valuation array.
C13_OutOfRangeNoOp ==
    (prog = "sat2sud" /\ pc \in { "exit", "crash" } /\ input.readable
       /\ Len(input.lines) = 2 /\ input.lines[1] = SatLine
       /\ \E j \in 1..Len(input.lines[2].toks) :
             IsOutOfRangeLiteral(input.lines[2].toks[j])) =>
        LET ref == build_val(parse_ints(WithoutOutOfRange(input.lines[2])))
        IN  /\ pc = "exit"
            /\ rc = 0
            /\ \A v \in 1..NUM_VARS : val[v] = ref[v]
            /\ out = print_grid(decode_grid(ref))

InvVarnumReturns ==
    (prog = "inv_varnum" /\ pc = "exit") =>
        /\ Len(out) = 3 /\ err = << >> /\ rc = 0
        /\ input = 0 => out = << 1, 1, 0 >>
        /\ input = NUM_VARS + 1 => out = << 10, 1, 1 >>
        /\ input = -1 => out = << 1, 1, -1 >>
        /\ input \in 1..NUM_VARS => varnum(out[1], out[2], out[3]) = input

\* the clause counts of the two encoders for the puzzle of an extended run:
\* what the extended encoder wrote, what the minimal encoder builds
ExtendedCount == Len(out) - 1
MinimalCount == Len(formula_of("sud2sat_basic", grid))

Appended == SubSeq(clauses', Len(clauses) + 1, Len(clauses'))

\* the four at-most-one families
AtMostOneCalls ==
    { "add_cell_at_most_one", "add_row_at_most_one", "add_col_at_most_one",
      "add_box_at_most_one" }

\* index pairs i < j of 1..9
OrderedPairs == { p \in (1..9) \X (1..9) : p[1] < p[2] }

\* the cell at position p (1..9, row-major) of box b (1..9, row-major)
CellOfBox(b, p) ==
    << 3 * ((b - 1) \div 3) + ((p - 1) \div 3) + 1,
       3 * ((b - 1) % 3) + ((p - 1) % 3) + 1 >>

\* per family: one unordered pair of variables per (scope, digit-or-cell,
\* unordered pair of distinct positions)
CellPairs ==
    { { varnum(r, c, p[1]), varnum(r, c, p[2]) } :
        r \in 1..9, c \in 1..9, p \in OrderedPairs }
RowPairs ==
    { { varnum(r, p[1], d), varnum(r, p[2], d) } :
        r \in 1..9, d \in 1..9, p \in OrderedPairs }
ColPairs ==
    { { varnum(p[1], c, d), varnum(p[2], c, d) } :
        c \in 1..9, d \in 1..9, p \in OrderedPairs }
BoxPairs ==
    { { varnum(CellOfBox(b, p[1])[1], CellOfBox(b, p[1])[2], d),
        varnum(CellOfBox(b, p[2])[1], CellOfBox(b, p[2])[2], d) } :
        b \in 1..9, d \in 1..9, p \in OrderedPairs }
PairsOf(name) ==
    CASE name = "add_cell_at_most_one" -> CellPairs
      [] name = "add_row_at_most_one" -> RowPairs
      [] name = "add_col_at_most_one" -> ColPairs
      [] name = "add_box_at_most_one" -> BoxPairs

\* C16: each at-most-one generator call appends exactly 2916 clauses, each of
\* two distinct negative literals, one clause per (scope, digit-or-cell,
\* unordered pair of distinct positions): no pair twice, in either order.
C16_AtMostOne ==
    [][(prog \in Encoders /\ pc \in AtMostOneCalls /\ pc' # pc) =>
          /\ Len(Appended) = 2916
          /\ \A i \in 1..Len(Appended) :
                /\ Len(Appended[i]) = 2
                /\ Appended[i][1] < 0 /\ Appended[i][2] < 0
                /\ Appended[i][1] # Appended[i][2]
          /\ Cardinality({ { -Appended[i][1], -Appended[i][2] } :
                             i \in 1..Len(Appended) }) = 2916
          /\ { { -Appended[i][1], -Appended[i][2] } :
                 i \in 1..Len(Appended) } = PairsOf(pc)]_vars

\* the extended encoder has made its cell-at-most-one call, the last of the
\* four
C16_Witness ==
    /\ prog = "sud2sat_extended"
    /\ pc = "add_row_at_least_one"
    /\ Len(clauses) >= 4 * 2916
    /\ clauses[Len(clauses)] = << -varnum(9, 9, 8), -varnum(9, 9, 9) >>

\* the four at-least-one families
AtLeastOneCalls ==
    { "add_cell_at_least_one", "add_row_at_least_one", "add_col_at_least_one",
      "add_box_at_least_one" }

\* a literal of the formula: nonzero, absolute value in 1..NUM_VARS
IsLiteral(l) == l # 0 /\ l >= -NUM_VARS /\ l <= NUM_VARS

\* a clause of the formula: non-empty, literals only
IsClause(cl) == Len(cl) >= 1 /\ \A k \in 1..Len(cl) : IsLiteral(cl[k])

\* the shape of a clause of the family the call `name` appends
HasShapeOf(name, cl) ==
    IF name \in AtLeastOneCalls
    THEN Len(cl) = 9 /\ \A k \in 1..9 : cl[k] > 0
    ELSE IF name \in AtMostOneCalls
    THEN Len(cl) = 2 /\ cl[1] < 0 /\ cl[2] < 0
    ELSE Len(cl) = 1 /\ cl[1] > 0

\* C17: after every generator call of an encoder run, every clause of the
\* collection is non-empty and every literal is nonzero with absolute value
\* in [1,729]; the clauses the call appended have the shape of its family:
\* 9 positive literals (at-least-one), 2 negative literals (at-most-one),
\* 1 positive literal (givens).
C17_FormulaInvariant ==
    [][(prog \in Encoders /\ pc' # pc
          /\ pc \in AtLeastOneCalls \cup AtMostOneCalls \cup { "add_givens" })
        =>
          /\ \A i \in 1..Len(clauses') : IsClause(clauses'[i])
          /\ \A i \in 1..Len(Appended) : HasShapeOf(pc, Appended[i])]_vars

\* an extended run has made all nine calls, the givens call appended some
\* unit clause
C17_Witness ==
    /\ prog = "sud2sat_extended"
    /\ pc = "output"
    /\ Len(clauses) > 11988
    /\ Len(clauses[8830]) = 1
    /\ Len(clauses[Len(clauses)]) = 9

\* the elements of a sequence
Elements(s) == { s[i] : i \in 1..Len(s) }

\* the cells of box (br, bc): floor((r-1)/3) = br and floor((c-1)/3) = bc
InBox(br, bc) ==
    { cell \in (1..9) \X (1..9) :
        (cell[1] - 1) \div 3 = br /\ (cell[2] - 1) \div 3 = bc }

BoxIndices == (0..2) \X (0..2)

\* C18: when a box family runs, each of its nine cell lists has exactly 9
\* cells, the lists are pairwise disjoint and cover the 81 cells, and cell
\* (r,c) is in the list of box (br,bc) exactly when br = floor((r-1)/3) and
\* bc = floor((c-1)/3); each box-at-least-one clause for digit d holds exactly
\* the 9 variables varnum(r,c,d) of one box, each box-at-most-one clause two
\* variables of one box and digit.
C18_BoxPartition ==
    [][(prog \in Encoders /\ pc' # pc
          /\ pc \in { "add_box_at_most_one", "add_box_at_least_one" })
        =>
          /\ \A b \in BoxIndices :
                /\ Len(box_cells(b[1], b[2])) = 9
                /\ Cardinality(Elements(box_cells(b[1], b[2]))) = 9
                /\ Elements(box_cells(b[1], b[2])) = InBox(b[1], b[2])
          /\ \A b1, b2 \in BoxIndices :
                b1 # b2 =>
                  Elements(box_cells(b1[1], b1[2]))
                    \cap Elements(box_cells(b2[1], b2[2])) = {}
          /\ UNION { Elements(box_cells(b[1], b[2])) : b \in BoxIndices }
                = (1..9) \X (1..9)
          /\ pc = "add_box_at_least_one" =>
                /\ Len(Appended) = 81
                /\ \A b \in BoxIndices : \A d \in 1..9 :
                      LET cl == Appended[9 * (3 * b[1] + b[2]) + d]
                      IN  /\ Len(cl) = 9
                          /\ Elements(cl) =
                               { varnum(cell[1], cell[2], d) :
                                   cell \in InBox(b[1], b[2]) }
          /\ pc = "add_box_at_most_one" =>
                /\ Len(Appended) = 2916
                /\ \A b \in BoxIndices : \A d \in 1..9 : \A k \in 1..36 :
                      LET cl == Appended[324 * (3 * b[1] + b[2])
                                           + 36 * (d - 1) + k]
                      IN  { -cl[1], -cl[2] } \subseteq
                               { varnum(cell[1], cell[2], d) :
                                   cell \in InBox(b[1], b[2]) }]_vars

\* the extended encoder has run both box families; its last clause is the
\* one of the last box for digit 9
C18_Witness ==
    /\ prog = "sud2sat_extended"
    /\ pc = "output"
    /\ clauses[Len(clauses)] =
         << varnum(7, 7, 9), varnum(7, 8, 9), varnum(7, 9, 9),
            varnum(8, 7, 9), varnum(8, 8, 9), varnum(8, 9, 9),
            varnum(9, 7, 9), varnum(9, 8, 9), varnum(9, 9, 9) >>

\* one step of an encoder: a generator call appends and keeps what was
\* there; at the output the minimal formula is a prefix of the extended one
MinimalIsPrefixStep ==
    prog \in Encoders =>
      /\ (pc \in AtLeastOneCalls \cup AtMostOneCalls \cup { "add_givens" }
            /\ pc' # pc) =>
            /\ Len(clauses') >= Len(clauses)
            /\ SubSeq(clauses', 1, Len(clauses)) = clauses
      /\ (pc = "output" /\ pc' = "exit") =>
            LET minimal == formula_of("sud2sat_basic", grid)
                lines == serialize(minimal)
            IN  IF prog = "sud2sat_basic"
                THEN clauses = minimal /\ out' = lines
                ELSE /\ clauses = minimal \o add_cell_at_most_one
                                    \o add_row_at_least_one
                                    \o add_col_at_least_one
                                    \o add_box_at_least_one
                     /\ \A i \in 1..Len(minimal) : out'[i + 1] = lines[i + 1]

\* C19: every generator call appends to the clause collection and leaves
\* the clauses before it unchanged; what the minimal encoder builds and
\* writes for a puzzle is a prefix (same clauses, literal order, positions)
\* of what the extended encoder builds and writes for it, and the rest is
\* the cell-at-most-one, row-, column- and box-at-least-one clauses.
C19_MinimalIsPrefix == [][MinimalIsPrefixStep]_vars

\* an extended run on a puzzle with givens has written its formula
C19_Witness ==
    /\ EncoderDone
    /\ prog = "sud2sat_extended"
    /\ Len(out) > 1 + 11988
    /\ Len(out[8831].toks) = 2
    /\ Len(out[Len(out)].toks) = 10

\* the collection at the output is the program's formula
ExitFormula == EncoderDone => clauses = formula_of(prog, grid)

TypeOK ==
    /\ pc \in { "main", "output", "exit", "read_assignment", "build_val",
                "decode", "print", "crash" } \cup { extended_main[i] : i \in 1..9 }
    /\ rc \in { -1, 0, 1 }
    /\ (rc = -1) <=> (pc # "exit")
====
